---- MODULE Spec2Model ----
(***************************************************************************)
(* Model of bot.py: the location store (init_db, save_user_location,       *)
(* get_user_location over one SQLite file shared by the bot's process      *)
(* instances), the geocoding wrapper (reverse_geocode), the link builder   *)
(* (build_snappfood_link, build_inline_pairs) and the handlers that drive  *)
(* them (run_bot, handle_location, mylocation).                            *)
(*                                                                         *)
(* Python values are records with a type tag t.  Text that is only stored  *)
(* and compared (city, address) is a TLA+ string; text that is encoded     *)
(* (queries, URLs, labels) is a sequence of Unicode code points.           *)
(***************************************************************************)
EXTENDS Integers, Sequences, FiniteSets, TLC

VARIABLES
    tableExists,  \* the users table is present in the database file
    users,        \* committed rows of the users table
    clock,        \* the latest value int(time.time()) returned
    calls,        \* number of location events / library saves started so far
    pc,           \* per process: position in run_bot or in the running handler
    cur,          \* per process: the event or call being served, and its outcome
    txn,          \* per process: the open write transaction (uncommitted row)
    lastSave,     \* history: per user, the row of the latest save that committed
    call          \* latest call of a pure function (demo / test mode)

vars == <<tableExists, users, clock, calls, pc, cur, txn, lastSave, call>>

dbVars == <<tableExists, users, clock, calls, pc, cur, txn, lastSave>>

-----------------------------------------------------------------------------
(* Bounds                                                                  *)

MaxCalls == 2     \* location events / library saves started in one behaviour
MaxClock == 1     \* largest value int(time.time()) returns

Procs == {"p1", "p2"}   \* process instances sharing the database file
Users == {1, 2}         \* user_id
Coords == {0, 1}        \* latitude / longitude values

-----------------------------------------------------------------------------
(* Python values                                                           *)

PyNone == [t |-> "NoneType", v |-> ""]
Absent == [t |-> "absent", v |-> ""]          \* key missing from a dict
Str(s) == [t |-> "str", v |-> s]

\* bool(x) for None and str
Truthy(x) == x.t = "str" /\ x.v # ""

\* x or y
Or(x, y) == IF Truthy(x) THEN x ELSE y

\* d.get(key) and d.get(key, default): e is the entry of key in d
DictGet(e, default) == IF e.t = "absent" THEN default ELSE e

EmptyDict == [t |-> "dict", city |-> Absent, town |-> Absent,
              county |-> Absent, state |-> Absent]

Return(val) == [raised |-> FALSE, exc |-> "", value |-> val]
Raise(e) == [raised |-> TRUE, exc |-> e, value |-> PyNone]

-----------------------------------------------------------------------------
(* Config                                                                  *)

\* "https://snappfood.ir"
BASE_WEB == <<104, 116, 116, 112, 115, 58, 47, 47, 115, 110, 97, 112, 112,
              102, 111, 111, 100, 46, 105, 114>>

CategoryKeys == {"pizza", "kebab", "burger", "sandwich", "irani"}

CATEGORY_QUERIES ==
    [k \in CategoryKeys |->
        CASE k = "pizza"    -> <<1662, 1740, 1578, 1586, 1575>>
          [] k = "kebab"    -> <<1705, 1576, 1575, 1576>>
          [] k = "burger"   -> <<1576, 1585, 1711, 1585>>
          [] k = "sandwich" -> <<1587, 1575, 1606, 1583, 1608, 1740, 1670>>
          [] k = "irani"    -> <<1575, 1740, 1585, 1575, 1606, 1740>>]

-----------------------------------------------------------------------------
(* Geo                                                                     *)

\* Exception classes that "except Exception" catches
ExceptionClasses == {"ConnectionError", "Timeout", "HTTPError",
                     "JSONDecodeError", "AttributeError"}

\* Variant: except requests.RequestException
CatchesOnlyRequestErrors(e) == e \in {"ConnectionError", "Timeout", "HTTPError"}

Catches(e) == e \in ExceptionClasses

\* Variant: town tried before city
CityOfTownFirst(comp) ==
    Or(Or(Or(Or(DictGet(comp.town, PyNone), DictGet(comp.city, PyNone)),
             DictGet(comp.county, PyNone)),
          DictGet(comp.state, PyNone)),
       Str(""))

\* comp.get("city") or comp.get("town") or comp.get("county")
\*   or comp.get("state") or ""
CityOf(comp) ==
    Or(Or(Or(Or(DictGet(comp.city, PyNone), DictGet(comp.town, PyNone)),
             DictGet(comp.county, PyNone)),
          DictGet(comp.state, PyNone)),
       Str(""))

\* r.raise_for_status()
RaiseForStatus(status) == status >= 400 /\ status < 600

\* The body of the try block, for the outcome resp of requests.get
GeocodeTry(lat, lon, resp) ==
    IF resp.net # "ok" THEN Raise(resp.net)
    ELSE IF RaiseForStatus(resp.status) THEN Raise("HTTPError")
    ELSE IF resp.body.t = "notjson" THEN Raise("JSONDecodeError")
    ELSE IF resp.body.t # "dict" THEN Raise("AttributeError")
    ELSE LET data == resp.body
             address == DictGet(data.display_name, Str(""))
             comp == DictGet(data.address, EmptyDict)
         IN  IF comp.t # "dict" THEN Raise("AttributeError")
             ELSE Return(<<CityOf(comp), address>>)

\* One requests.get per call; an exception caught gives ("", "")
reverse_geocode(lat, lon, resp) ==
    LET r == GeocodeTry(lat, lon, resp)
    IN  [requests |-> 1,
         out |-> IF r.raised /\ Catches(r.exc)
                 THEN Return(<<Str(""), Str("")>>)
                 ELSE r]

-----------------------------------------------------------------------------
(* Link Builder                                                            *)

RECURSIVE Flatten(_)
Flatten(ss) == IF ss = <<>> THEN <<>> ELSE Head(ss) \o Flatten(Tail(ss))

\* UTF-8 bytes of a code point
Utf8(c) ==
    IF c < 128 THEN <<c>>
    ELSE IF c < 2048 THEN <<192 + (c \div 64), 128 + (c % 64)>>
    ELSE IF c < 65536
         THEN <<224 + (c \div 4096), 128 + ((c \div 64) % 64), 128 + (c % 64)>>
    ELSE <<240 + (c \div 262144), 128 + ((c \div 4096) % 64),
           128 + ((c \div 64) % 64), 128 + (c % 64)>>

HexDigit(n) == IF n < 10 THEN 48 + n ELSE 55 + n

\* "%XX" of a byte
PercentByte(b) == <<37, HexDigit(b \div 16), HexDigit(b % 16)>>

\* Characters quote never escapes: letters, digits and "_.-~"
AlwaysSafe == (48..57) \cup (65..90) \cup (97..122) \cup {95, 46, 45, 126}

QuoteChar(c) ==
    IF c \in AlwaysSafe THEN <<c>>
    ELSE IF c = 32 THEN <<43>>
    ELSE Flatten([i \in 1..Len(Utf8(c)) |-> PercentByte(Utf8(c)[i])])

\* urllib.parse.quote_plus
quote_plus(q) == Flatten([i \in 1..Len(q) |-> QuoteChar(q[i])])

\* "/search?query="
SearchQuery == <<47, 115, 101, 97, 114, 99, 104, 63, 113, 117, 101, 114, 121, 61>>

\* CATEGORY_QUERIES.get(category_key, "")
QueryOf(category_key) ==
    IF category_key \in DOMAIN CATEGORY_QUERIES
    THEN CATEGORY_QUERIES[category_key] ELSE <<>>

\* Variant: the city hint appended as a second parameter
build_snappfood_link_with_city(category_key, city) ==
    BASE_WEB \o SearchQuery \o quote_plus(QueryOf(category_key))
        \o (IF city.t = "str" THEN <<38, 99, 61>> \o quote_plus(city.v) ELSE <<>>)

build_snappfood_link(category_key, city) ==
    BASE_WEB \o SearchQuery \o quote_plus(QueryOf(category_key))

LabelPizza == <<127829, 32, 1662, 1740, 1578, 1586, 1575, 32,
                1575, 1585, 1586, 1575, 1606>>
LabelKebab == <<127830, 32, 1705, 1576, 1575, 1576, 32,
                1575, 1585, 1586, 1575, 1606>>
LabelBurger == <<127828, 32, 1576, 1585, 1711, 1585, 32,
                 1575, 1585, 1586, 1575, 1606>>
LabelSandwich == <<129386, 32, 1587, 1575, 1606, 1583, 1608, 1740, 1670, 32,
                   1575, 1585, 1586, 1575, 1606>>
LabelIrani == <<127869, 32, 1575, 1740, 1585, 1575, 1606, 1740, 32,
                1575, 1585, 1586, 1575, 1606>>

\* Variant: kebab and burger exchanged
build_inline_pairs_swapped(city) ==
    << <<LabelPizza, build_snappfood_link("pizza", city)>>,
       <<LabelBurger, build_snappfood_link("burger", city)>>,
       <<LabelKebab, build_snappfood_link("kebab", city)>>,
       <<LabelSandwich, build_snappfood_link("sandwich", city)>>,
       <<LabelIrani, build_snappfood_link("irani", city)>> >>

build_inline_pairs(city) ==
    << <<LabelPizza, build_snappfood_link("pizza", city)>>,
       <<LabelKebab, build_snappfood_link("kebab", city)>>,
       <<LabelBurger, build_snappfood_link("burger", city)>>,
       <<LabelSandwich, build_snappfood_link("sandwich", city)>>,
       <<LabelIrani, build_snappfood_link("irani", city)>> >>

-----------------------------------------------------------------------------
(* DB                                                                      *)

Row(user_id, lat, lon, city, address, updated_at) ==
    [user_id |-> user_id, lat |-> lat, lon |-> lon, city |-> city,
     address |-> address, updated_at |-> updated_at]

NoRow == Row(0, 0, 0, PyNone, PyNone, 0)

NoTxn == [open |-> FALSE, row |-> NoRow]

Tuple(v) == [t |-> "tuple", v |-> v]

\* Variant: CREATE TABLE without IF NOT EXISTS
init_db_unconditional(exists, table) ==
    [exists |-> TRUE, table |-> table,
     exc |-> IF exists THEN "OperationalError: table users already exists" ELSE ""]

\* CREATE TABLE IF NOT EXISTS users (user_id INTEGER PRIMARY KEY, ...)
init_db(exists, table) == [exists |-> TRUE, table |-> table, exc |-> ""]

\* Variant: plain INSERT into a table without the primary key
UpsertInsertOnly(table, row) == table \cup {row}

\* Variant: DO UPDATE SET without city and address
UpsertCoordsOnly(table, row) ==
    IF \E r \in table : r.user_id = row.user_id
    THEN {IF r.user_id = row.user_id
          THEN [r EXCEPT !.lat = row.lat, !.lon = row.lon,
                         !.updated_at = row.updated_at]
          ELSE r : r \in table}
    ELSE table \cup {row}

\* INSERT INTO users ... ON CONFLICT(user_id) DO UPDATE SET lat, lon, city,
\* address, updated_at = excluded.*
Upsert(table, row) ==
    IF \E r \in table : r.user_id = row.user_id
    THEN {IF r.user_id = row.user_id
          THEN [r EXCEPT !.lat = row.lat, !.lon = row.lon, !.city = row.city,
                         !.address = row.address, !.updated_at = row.updated_at]
          ELSE r : r \in table}
    ELSE table \cup {row}

\* float(x) of a value read from a REAL column
Float(x) == x

\* Variant: the row indexed without the 'if row' test
get_user_location_strict(exists, table, user_id) ==
    IF ~exists THEN Raise("OperationalError: no such table: users")
    ELSE LET rows == {r \in table : r.user_id = user_id}
         IN  IF rows = {} THEN Raise("TypeError")
             ELSE LET row == CHOOSE r \in rows : TRUE
                  IN  Return(Tuple(<<Float(row.lat), Float(row.lon),
                                     Or(row.city, Str("")), Or(row.address, Str(""))>>))

\* Variant: SELECT without the WHERE clause
get_user_location_first(exists, table, user_id) ==
    IF ~exists THEN Raise("OperationalError: no such table: users")
    ELSE IF table = {} THEN Return(PyNone)
         ELSE LET row == CHOOSE r \in table : TRUE
              IN  Return(Tuple(<<Float(row.lat), Float(row.lon),
                                 Or(row.city, Str("")), Or(row.address, Str(""))>>))

\* SELECT lat, lon, city, address FROM users WHERE user_id=?; fetchone()
get_user_location(exists, table, user_id) ==
    IF ~exists THEN Raise("OperationalError: no such table: users")
    ELSE LET rows == {r \in table : r.user_id = user_id}
         IN  IF rows = {} THEN Return(PyNone)
             ELSE LET row == CHOOSE r \in rows : TRUE
                  IN  Return(Tuple(<<Float(row.lat), Float(row.lon),
                                     Or(row.city, Str("")), Or(row.address, Str(""))>>))

-----------------------------------------------------------------------------
(* Events, calls and their outcomes                                        *)

NoEvent ==
    [kind |-> "none", user_id |-> 0, loc |-> FALSE, lat |-> 0, lon |-> 0,
     geo |-> "", city |-> PyNone, address |-> PyNone,
     stored |-> NoRow, out |-> <<>>, exc |-> "", ret |-> PyNone]

NoLocation == [present |-> FALSE, lat |-> 0, lon |-> 0]

Location(lat, lon) == [present |-> TRUE, lat |-> lat, lon |-> lon]

\* The update.message.location values an event is run with
Locations == {NoLocation, Location(0, 1), Location(1, 0)}

\* Outcomes of requests.get
Response(net, status, body) == [net |-> net, status |-> status, body |-> body]

JsonObject(display_name, address) ==
    [t |-> "dict", display_name |-> display_name, address |-> address]

AddressObject(city, town, county, state) ==
    [t |-> "dict", city |-> city, town |-> town, county |-> county, state |-> state]

FieldValues(s) == {Absent, PyNone, Str(""), Str(s)}

AddressValues ==
    {Absent, PyNone, Str("Tehran")}
    \cup {AddressObject(c, t, k, s) :
            c \in FieldValues("City"), t \in FieldValues("Town"),
            k \in FieldValues("County"), s \in FieldValues("State")}

Bodies ==
    {[t |-> "notjson"], [t |-> "list"], PyNone}
    \cup {JsonObject(d, a) : d \in FieldValues("Some Address"), a \in AddressValues}

Responses ==
    {Response("ConnectionError", 0, PyNone), Response("Timeout", 0, PyNone)}
    \cup {Response("ok", st, b) : st \in {200, 404, 500}, b \in Bodies}

\* The outcomes a location event is run with
HandlerResponses ==
    {Response("Timeout", 0, PyNone),
     Response("ok", 200, JsonObject(Str("Some Address"),
                 AddressObject(Str("City"), Absent, Absent, Absent)))}

\* "شهر نامشخص" and "آدرس نامشخص"
UNKNOWN_CITY == "unknown city"
UNKNOWN_ADDRESS == "unknown address"

Message(kind, city, address, buttons) ==
    [kind |-> kind, city |-> city, address |-> address, buttons |-> buttons]

LibKinds == {"init_db", "save", "get"}

Home(kind) == IF kind \in LibKinds THEN "lib" ELSE "idle"

\* Variant: the exception of the save swallowed
AfterSaveSwallow(kind, exc) == IF kind = "location" THEN "reply" ELSE "lib"

\* Where control goes after save_user_location: an exception leaves the handler
AfterSave(kind, exc) ==
    IF exc # "" THEN Home(kind)
    ELSE IF kind = "location" THEN "reply" ELSE "lib"

-----------------------------------------------------------------------------
(* Telegram handlers                                                       *)

\* run_bot: init_db() before any handler is registered
RunBot(p) ==
    /\ pc[p] = "start"
    /\ LET r == init_db(tableExists, users)
       IN  /\ tableExists' = r.exists
           /\ users' = r.table
           /\ cur' = [cur EXCEPT ![p] = [NoEvent EXCEPT !.kind = "run_bot", !.exc = r.exc]]
           /\ pc' = [pc EXCEPT ![p] = IF r.exc # "" THEN "exit" ELSE "idle"]
    /\ UNCHANGED <<clock, calls, txn, lastSave, call>>

\* handle_location up to reverse_geocode
HandleLocation(p, u, loc, resp) ==
    /\ pc[p] = "idle"
    /\ calls < MaxCalls
    /\ calls' = calls + 1
    /\ IF ~loc.present
       THEN /\ cur' = [cur EXCEPT ![p] =
                         [NoEvent EXCEPT !.kind = "location", !.user_id = u,
                              !.out = <<Message("no_location", "", "", 0)>>]]
            /\ pc' = pc
       ELSE LET g == reverse_geocode(loc.lat, loc.lon, resp).out
                ev == [NoEvent EXCEPT !.kind = "location", !.user_id = u,
                           !.loc = TRUE, !.lat = loc.lat, !.lon = loc.lon,
                           !.geo = IF GeocodeTry(loc.lat, loc.lon, resp).raised
                                   THEN "failed" ELSE "ok"]
            IN  IF g.raised
                THEN /\ cur' = [cur EXCEPT ![p] = [ev EXCEPT !.exc = g.exc]]
                     /\ pc' = pc
                ELSE /\ cur' = [cur EXCEPT ![p] =
                                  [ev EXCEPT !.city = g.value[1], !.address = g.value[2]]]
                     /\ pc' = [pc EXCEPT ![p] = "init"]
    /\ UNCHANGED <<tableExists, users, clock, txn, lastSave, call>>

\* handle_location: init_db()  # ensure table exists
HandleInitDb(p) ==
    /\ pc[p] = "init"
    /\ LET r == init_db(tableExists, users)
       IN  /\ tableExists' = r.exists
           /\ users' = r.table
           /\ cur' = [cur EXCEPT ![p].exc = r.exc]
           /\ pc' = [pc EXCEPT ![p] = IF r.exc # "" THEN "idle" ELSE "save"]
    /\ UNCHANGED <<clock, calls, txn, lastSave, call>>

\* save_user_location: connect and execute the INSERT in a new transaction.
\* The statement needs the table and the database's write lock; now is what
\* int(time.time()) returns, which never runs backwards.
SaveExecute(p, now) ==
    /\ pc[p] = "save"
    /\ now >= clock
    /\ clock' = now
    /\ LET exc == IF ~tableExists THEN "OperationalError: no such table: users"
                  ELSE IF \E q \in Procs \ {p} : txn[q].open
                       THEN "OperationalError: database is locked"
                       ELSE ""
       IN  IF exc # ""
           THEN /\ cur' = [cur EXCEPT ![p].exc = exc]
                /\ pc' = [pc EXCEPT ![p] = AfterSave(cur[p].kind, exc)]
                /\ txn' = txn
           ELSE /\ txn' = [txn EXCEPT ![p] =
                             [open |-> TRUE,
                              row |-> Row(cur[p].user_id, cur[p].lat, cur[p].lon,
                                          cur[p].city, cur[p].address, now)]]
                /\ pc' = [pc EXCEPT ![p] = "commit"]
                /\ cur' = cur
    /\ UNCHANGED <<tableExists, users, calls, lastSave, call>>

\* save_user_location: con.commit(); con.close()
SaveCommit(p) ==
    /\ pc[p] = "commit"
    /\ users' = Upsert(users, txn[p].row)
    /\ lastSave' = [lastSave EXCEPT ![cur[p].user_id] =
                      Row(cur[p].user_id, cur[p].lat, cur[p].lon, cur[p].city,
                          cur[p].address, txn[p].row.updated_at)]
    /\ txn' = [txn EXCEPT ![p] = NoTxn]
    /\ cur' = [cur EXCEPT ![p].stored =
                 CHOOSE r \in users' : r.user_id = cur[p].user_id]
    /\ pc' = [pc EXCEPT ![p] = AfterSave(cur[p].kind, "")]
    /\ UNCHANGED <<tableExists, clock, calls, call>>

\* save_user_location: con.commit() raises (disk full, I/O error); the
\* transaction is rolled back when the connection is dropped
SaveCommitFails(p) ==
    /\ pc[p] = "commit"
    /\ txn' = [txn EXCEPT ![p] = NoTxn]
    /\ cur' = [cur EXCEPT ![p].exc = "OperationalError: disk I/O error"]
    /\ pc' = [pc EXCEPT ![p] =
                AfterSave(cur[p].kind, "OperationalError: disk I/O error")]
    /\ UNCHANGED <<tableExists, users, clock, calls, lastSave, call>>

\* handle_location: placeholders, build_inline_pairs and the two replies
Reply(p) ==
    /\ pc[p] = "reply"
    /\ LET city_txt == Or(cur[p].city, Str(UNKNOWN_CITY))
           address_txt == Or(cur[p].address, Str(UNKNOWN_ADDRESS))
           pairs == build_inline_pairs(city_txt)
       IN  cur' = [cur EXCEPT ![p].out =
                     <<Message("confirm", city_txt.v, address_txt.v, 0),
                       Message("links", "", "", Len(pairs))>>]
    /\ pc' = [pc EXCEPT ![p] = "idle"]
    /\ UNCHANGED <<tableExists, users, clock, calls, txn, lastSave, call>>

\* mylocation
Mylocation(p, u) ==
    /\ pc[p] = "idle"
    /\ LET r == get_user_location(tableExists, users, u)
       IN  cur' = [cur EXCEPT ![p] =
                     [NoEvent EXCEPT !.kind = "mylocation", !.user_id = u,
                          !.ret = r.value, !.exc = r.exc,
                          !.out = IF r.raised THEN <<>>
                                  ELSE IF r.value.t = "NoneType"
                                       THEN <<Message("not_registered", "", "", 0)>>
                                       ELSE <<Message("location", r.value.v[3].v,
                                                      r.value.v[4].v, 0)>>]]
    /\ UNCHANGED <<tableExists, users, clock, calls, pc, txn, lastSave, call>>

-----------------------------------------------------------------------------
(* Direct calls of the store's functions, in any order                     *)

\* The (lat, lon, city, address) values save_user_location is called with
SaveArgs ==
    {<<0, 0, Str(""), Str("")>>,
     <<0, 1, Str("City"), PyNone>>,
     <<1, 0, PyNone, Str("Some Address")>>,
     <<1, 1, Str("City"), Str("Some Address")>>}

LibInitDb(p) ==
    /\ pc[p] = "lib"
    /\ LET r == init_db(tableExists, users)
       IN  /\ tableExists' = r.exists
           /\ users' = r.table
           /\ cur' = [cur EXCEPT ![p] = [NoEvent EXCEPT !.kind = "init_db", !.exc = r.exc]]
    /\ UNCHANGED <<clock, calls, pc, txn, lastSave, call>>

LibSave(p, u, lat, lon, city, address) ==
    /\ pc[p] = "lib"
    /\ calls < MaxCalls
    /\ calls' = calls + 1
    /\ cur' = [cur EXCEPT ![p] =
                 [NoEvent EXCEPT !.kind = "save", !.user_id = u, !.loc = TRUE,
                      !.lat = lat, !.lon = lon, !.city = city, !.address = address]]
    /\ pc' = [pc EXCEPT ![p] = "save"]
    /\ UNCHANGED <<tableExists, users, clock, txn, lastSave, call>>

LibGet(p, u) ==
    /\ pc[p] = "lib"
    /\ LET r == get_user_location(tableExists, users, u)
       IN  cur' = [cur EXCEPT ![p] =
                     [NoEvent EXCEPT !.kind = "get", !.user_id = u,
                          !.ret = r.value, !.exc = r.exc]]
    /\ UNCHANGED <<tableExists, users, clock, calls, pc, txn, lastSave, call>>

-----------------------------------------------------------------------------
(* Demo and test mode: the pure functions on their own                     *)

NoCall == [fn |-> "none"]

Keys == CategoryKeys \cup {"unknown", ""}

\* "تهران"
CityHints == {PyNone, Str(<<>>), Str(<<1578, 1607, 1585, 1575, 1606>>)}

ReverseGeocode(lat, lon, resp) ==
    /\ call = NoCall
    /\ call' = [fn |-> "reverse_geocode", lat |-> lat, lon |-> lon, resp |-> resp,
                res |-> reverse_geocode(lat, lon, resp)]
    /\ UNCHANGED dbVars

BuildSnappfoodLink(category_key, city) ==
    /\ call = NoCall
    /\ call' = [fn |-> "build_snappfood_link", key |-> category_key, city |-> city,
                res |-> build_snappfood_link(category_key, city)]
    /\ UNCHANGED dbVars

BuildInlinePairs(city) ==
    /\ call = NoCall
    /\ call' = [fn |-> "build_inline_pairs", city |-> city,
                res |-> build_inline_pairs(city)]
    /\ UNCHANGED dbVars

-----------------------------------------------------------------------------
(* Specifications                                                          *)

InitStore ==
    /\ tableExists = FALSE
    /\ users = {}
    /\ clock = 0
    /\ calls = 0
    /\ cur = [p \in Procs |-> NoEvent]
    /\ txn = [p \in Procs |-> NoTxn]
    /\ lastSave = [u \in Users |-> NoRow]
    /\ call = NoCall

\* The bot: every process runs run_bot, then serves events
Init == InitStore /\ pc = [p \in Procs |-> "start"]

Next ==
    \/ \E p \in Procs : RunBot(p)
    \/ \E p \in Procs, u \in Users, loc \in Locations, resp \in HandlerResponses :
          HandleLocation(p, u, loc, resp)
    \/ \E p \in Procs : HandleInitDb(p)
    \/ \E p \in Procs, now \in 0..MaxClock : SaveExecute(p, now)
    \/ \E p \in Procs : SaveCommit(p)
    \/ \E p \in Procs : SaveCommitFails(p)
    \/ \E p \in Procs : Reply(p)
    \/ \E p \in Procs, u \in Users : Mylocation(p, u)

Spec == Init /\ [][Next]_vars

\* The store's functions called directly, in any order, by several processes
InitLib == InitStore /\ pc = [p \in Procs |-> "lib"]

NextLib ==
    \/ \E p \in Procs : LibInitDb(p)
    \/ \E p \in Procs, u \in Users, a \in SaveArgs :
          LibSave(p, u, a[1], a[2], a[3], a[4])
    \/ \E p \in Procs, now \in 0..MaxClock : SaveExecute(p, now)
    \/ \E p \in Procs : SaveCommit(p)
    \/ \E p \in Procs : SaveCommitFails(p)
    \/ \E p \in Procs, u \in Users : LibGet(p, u)

SpecLib == InitLib /\ [][NextLib]_vars

\* Demo / test mode: reverse_geocode and the link builder
InitFn == InitStore /\ pc = [p \in Procs |-> "start"]

NextFn ==
    \/ \E lat \in Coords, lon \in Coords, resp \in Responses : ReverseGeocode(lat, lon, resp)
    \/ \E k \in Keys, city \in CityHints : BuildSnappfoodLink(k, city)
    \/ \E city \in CityHints : BuildInlinePairs(city)

SpecFn == InitFn /\ [][NextFn]_vars

-----------------------------------------------------------------------------
(* Helpers of the properties                                               *)

StartsWith(s, prefix) ==
    Len(s) >= Len(prefix) /\ SubSeq(s, 1, Len(prefix)) = prefix

HexValue(d) == IF d >= 65 THEN d - 55 ELSE d - 48

\* The bytes a query component stands for: "+" is a space, "%XX" a byte
RECURSIVE PercentDecode(_)
PercentDecode(s) ==
    IF s = <<>> THEN <<>>
    ELSE IF s[1] = 37
         THEN <<16 * HexValue(s[2]) + HexValue(s[3])>>
                  \o PercentDecode(SubSeq(s, 4, Len(s)))
         ELSE <<IF s[1] = 43 THEN 32 ELSE s[1]>> \o PercentDecode(Tail(s))

\* The code points of a UTF-8 byte sequence
RECURSIVE Utf8Decode(_)
Utf8Decode(b) ==
    IF b = <<>> THEN <<>>
    ELSE IF b[1] < 128 THEN <<b[1]>> \o Utf8Decode(Tail(b))
    ELSE IF b[1] < 224
         THEN <<(b[1] - 192) * 64 + (b[2] - 128)>> \o Utf8Decode(SubSeq(b, 3, Len(b)))
    ELSE IF b[1] < 240
         THEN <<(b[1] - 224) * 4096 + (b[2] - 128) * 64 + (b[3] - 128)>>
                  \o Utf8Decode(SubSeq(b, 4, Len(b)))
    ELSE <<(b[1] - 240) * 262144 + (b[2] - 128) * 4096 + (b[3] - 128) * 64
             + (b[4] - 128)>> \o Utf8Decode(SubSeq(b, 5, Len(b)))

UnquotePlus(s) == Utf8Decode(PercentDecode(s))

\* "%D9%BE%DB%8C%D8%AA%D8%B2%D8%A7", the encoded pizza query
PizzaEncoded == <<37, 68, 57, 37, 66, 69, 37, 68, 66, 37, 56, 67, 37, 68, 56,
                  37, 65, 65, 37, 68, 56, 37, 66, 50, 37, 68, 56, 37, 65, 55>>

FixedOrder == <<"pizza", "kebab", "burger", "sandwich", "irani">>

\* The outbound call failed: no response, an error status, or a body that is
\* not a JSON object
FailedOutcome(resp) ==
    \/ resp.net # "ok"
    \/ resp.status >= 400
    \/ resp.body.t # "dict"

\* A response reverse_geocode reads city and address from
Successful(resp) ==
    /\ ~FailedOutcome(resp)
    /\ resp.body.address.t \in {"absent", "dict"}

Components(resp) ==
    IF resp.body.address.t = "absent" THEN EmptyDict ELSE resp.body.address

Fields(comp) == <<comp.city, comp.town, comp.county, comp.state>>

FirstPresent(comp) ==
    LET idx == {i \in 1..4 : Fields(comp)[i].t # "absent"}
    IN  IF idx = {} THEN Str("")
        ELSE Fields(comp)[CHOOSE i \in idx : \A j \in idx : i <= j]

FirstNonEmpty(comp) ==
    LET idx == {i \in 1..4 : Fields(comp)[i].t = "str" /\ Fields(comp)[i].v # ""}
    IN  IF idx = {} THEN Str("")
        ELSE Fields(comp)[CHOOSE i \in idx : \A j \in idx : i <= j]

DisplayName(resp) ==
    IF resp.body.display_name.t = "absent" THEN Str("") ELSE resp.body.display_name

NoneToEmpty(x) == IF x.t = "NoneType" THEN Str("") ELSE x

Kinds(out) == {out[i].kind : i \in 1..Len(out)}

-----------------------------------------------------------------------------
(* Properties                                                              *)

\* C1: reverse_geocode never raises; whenever the outbound call fails (network
\* exception, timeout, error status, body that is not JSON or not a JSON
\* object) it returns ("", ""), and it issues exactly one request.
C1_GeocodeNeverRaises ==
    call.fn = "reverse_geocode" =>
        /\ ~call.res.out.raised
        /\ call.res.requests = 1
        /\ FailedOutcome(call.resp) => call.res.out.value = <<Str(""), Str("")>>

C1_Witness ==
    /\ call.fn = "reverse_geocode"
    /\ call.resp.net = "ok"
    /\ call.resp.status = 200
    /\ call.resp.body.t = "list"
    /\ call.res.out.value = <<Str(""), Str("")>>

\* C2: the users table holds at most one row per user_id, and a user_id that
\* was written once has a row in every later state.
C2_OneRowPerUser ==
    /\ \A r1, r2 \in users : r1.user_id = r2.user_id => r1 = r2
    /\ \A u \in Users : lastSave[u].user_id # 0 => \E r \in users : r.user_id = u

C2_Witness ==
    \E p, q \in Procs :
        /\ cur[p].stored.user_id # 0
        /\ cur[p].stored.user_id = cur[q].stored.user_id
        /\ cur[p].stored # cur[q].stored
        /\ Cardinality(users) = 1

\* C3: the stored row of a user is always the complete (lat, lon, city,
\* address, updated_at) tuple of the save that committed last for that user:
\* never a mix of two calls, and untouched by a save that failed.
C3_AtomicSave ==
    \A r \in users : r = lastSave[r.user_id]

C3_Witness ==
    \E p \in Procs :
        /\ cur[p].kind = "save"
        /\ cur[p].exc = "OperationalError: disk I/O error"
        /\ \E r \in users : /\ r.user_id = cur[p].user_id
                            /\ r.lat # cur[p].lat
                            /\ r.city # cur[p].city

\* C4 as stated: get_user_location(u) returns exactly the (lat, lon, city,
\* address) passed to the most recent save for u.
C4_Original ==
    [][\A p \in Procs, u \in Users :
          (LibGet(p, u) /\ lastSave[u].user_id # 0) =>
              /\ cur'[p].exc = ""
              /\ cur'[p].ret.t = "tuple"
              /\ cur'[p].ret.v = <<lastSave[u].lat, lastSave[u].lon,
                                   lastSave[u].city, lastSave[u].address>>]_vars

\* C4, amended: get_user_location(u) returns the (lat, lon, city, address)
\* passed to the most recent save for u, every field from that call, with a
\* None city or address returned as the empty string; saves for other user
\* ids do not change the result.
C4_LastSaveReturned ==
    [][\A p \in Procs, u \in Users :
          (LibGet(p, u) /\ lastSave[u].user_id # 0) =>
              /\ cur'[p].exc = ""
              /\ cur'[p].ret.t = "tuple"
              /\ cur'[p].ret.v = <<lastSave[u].lat, lastSave[u].lon,
                                   NoneToEmpty(lastSave[u].city),
                                   NoneToEmpty(lastSave[u].address)>>]_vars

C4_Witness ==
    \E p \in Procs :
        /\ cur[p].kind = "get"
        /\ cur[p].ret.t = "tuple"
        /\ lastSave[cur[p].user_id].city = PyNone
        /\ cur[p].ret.v[3] = Str("")
        /\ \E u \in Users : u # cur[p].user_id /\ lastSave[u].user_id # 0

\* C5: in the bot's own call order, get_user_location on a user id never
\* saved returns None, raises nothing and changes no stored row.
C5_AbsentIsNone ==
    [][\A p \in Procs, u \in Users :
          (Mylocation(p, u) /\ lastSave[u].user_id = 0) =>
              /\ cur'[p].exc = ""
              /\ cur'[p].ret = PyNone
              /\ users' = users]_vars

C5_Witness ==
    \E p \in Procs :
        /\ cur[p].kind = "mylocation"
        /\ cur[p].exc = ""
        /\ cur[p].ret = PyNone
        /\ lastSave[cur[p].user_id].user_id = 0
        /\ users # {}

\* C6 as stated: city is the value of the first field present among city,
\* town, county, state, and "" when none is present; address is display_name,
\* or "" when display_name is absent.
C6_Original ==
    (call.fn = "reverse_geocode" /\ Successful(call.resp)) =>
        /\ ~call.res.out.raised
        /\ call.res.out.value[1] = FirstPresent(Components(call.resp))
        /\ call.res.out.value[2] = DisplayName(call.resp)

\* C6, amended: on a successful response, city is the value of the first
\* field among city, town, county, state, in that order, that is present with
\* a non-empty value, and "" when there is none; address is display_name, or
\* "" when display_name is absent.
C6_CityPriority ==
    (call.fn = "reverse_geocode" /\ Successful(call.resp)) =>
        /\ ~call.res.out.raised
        /\ call.res.out.value[1] = FirstNonEmpty(Components(call.resp))
        /\ call.res.out.value[2] = DisplayName(call.resp)

C6_Witness ==
    /\ call.fn = "reverse_geocode"
    /\ Successful(call.resp)
    /\ call.resp.body.address.t = "dict"
    /\ call.resp.body.address.city = Str("")
    /\ call.resp.body.address.town = Str("Town")
    /\ call.res.out.value[1] = Str("Town")

\* C7: init_db never fails on a table that already exists and leaves every
\* stored row unchanged, whenever and by whichever process it is called.
C7_InitDbIdempotent ==
    [][\A p \in Procs :
          (RunBot(p) \/ HandleInitDb(p)) =>
              /\ cur'[p].exc = ""
              /\ tableExists'
              /\ users' = users]_vars

C7_Witness ==
    \E p \in Procs :
        /\ pc[p] = "save"
        /\ cur[p].exc = ""
        /\ users # {}

\* C8: build_inline_pairs returns exactly 5 (label, url) pairs, in the order
\* pizza, kebab, burger, sandwich, irani; each url is build_snappfood_link of
\* that key and starts with the base; the city hint changes nothing.
C8_InlinePairs ==
    call.fn = "build_inline_pairs" =>
        /\ Len(call.res) = 5
        /\ \A i \in 1..5 :
              /\ Len(call.res[i]) = 2
              /\ call.res[i][2] = build_snappfood_link(FixedOrder[i], PyNone)
              /\ StartsWith(call.res[i][2], BASE_WEB)

C8_Witness ==
    /\ call.fn = "build_inline_pairs"
    /\ call.city.t = "str"
    /\ Len(call.city.v) > 0
    /\ Len(call.res) = 5

\* C9: build_snappfood_link returns the base followed by "/search?query=" and
\* the encoded query of a known key (which decodes back to the query), an
\* empty query component for any other key, whatever the city hint.
C9_Link ==
    call.fn = "build_snappfood_link" =>
        LET prefix == BASE_WEB \o SearchQuery
            q == SubSeq(call.res, Len(prefix) + 1, Len(call.res))
        IN  /\ StartsWith(call.res, prefix)
            /\ call.key \in CategoryKeys =>
                  /\ UnquotePlus(q) = CATEGORY_QUERIES[call.key]
                  /\ \A i \in 1..Len(q) : q[i] \in AlwaysSafe \cup {37, 43}
                  /\ call.key = "pizza" => q = PizzaEncoded
            /\ call.key \notin CategoryKeys => q = <<>>

C9_Witness ==
    /\ call.fn = "build_snappfood_link"
    /\ call.key = "pizza"
    /\ call.city.t = "str"
    /\ Len(call.city.v) > 0
    /\ Len(call.res) > Len(BASE_WEB \o SearchQuery)

\* C10: handle_location runs resolve, persist, reply in that order: replies
\* are sent only after the row with the event's user and coordinates was
\* stored; a failed geocoding still stores the row (empty city and address)
\* and is still replied to; a failed save sends nothing; an event without a
\* location stores nothing.
C10_HandleLocationOrder ==
    \A p \in Procs :
        LET e == cur[p]
            replied == Kinds(e.out) \cap {"confirm", "links"} # {}
            stored == /\ e.stored.user_id = e.user_id
                      /\ e.stored.lat = e.lat
                      /\ e.stored.lon = e.lon
        IN  e.kind = "location" =>
              /\ (replied \/ pc[p] = "reply") => (e.loc /\ stored /\ e.exc = "")
              /\ pc[p] \in {"init", "save", "commit"} => (e.out = <<>> /\ e.stored = NoRow)
              /\ (e.geo = "failed" /\ stored) =>
                    (e.stored.city = Str("") /\ e.stored.address = Str(""))
              /\ (pc[p] = "idle" /\ e.loc /\ e.exc = "") =>
                    (stored /\ Kinds(e.out) = {"confirm", "links"})
              /\ e.exc # "" => (e.out = <<>> /\ pc[p] = "idle")
              /\ e.exc # "" => e.exc \in {"OperationalError: database is locked",
                                          "OperationalError: disk I/O error"}
              /\ ~e.loc => (e.stored = NoRow /\ Kinds(e.out) = {"no_location"})

C10_Witness ==
    \E p \in Procs :
        /\ cur[p].kind = "location"
        /\ cur[p].geo = "failed"
        /\ cur[p].stored.user_id = cur[p].user_id
        /\ cur[p].stored.city = Str("")
        /\ Kinds(cur[p].out) = {"confirm", "links"}

====
